---- MODULE Spec2Model ----
(***************************************************************************)
(* A model of ecs-agent/api/container/restart/restart_tracker.go: the      *)
(* RestartTracker of one container, its RestartPolicy, and the three       *)
(* methods ShouldRestart, RecordRestart and GetRestartCount.               *)
(*                                                                         *)
(* Go values are modelled as follows.                                      *)
(*   *int            <<>> for nil, <<c>> for a pointer to c                *)
(*   []int           a slice header [ptr, len]; ptr = 0 is the nil slice,  *)
(*                   ptr = 1 points at the backing array `heap`            *)
(*   time.Duration   an integer number of abstract time units              *)
(*   time.Time       an integer instant in the same units, counted from    *)
(*                   the clock's reading at the call: 0 is now, a negative *)
(*                   instant is past, a positive one is to come            *)
(* Copying a RestartPolicy copies Enabled, AttemptResetPeriod and the      *)
(* slice header by value; the backing array is shared with the caller, of  *)
(* whose policy object only the slice is therefore kept as state.          *)
(***************************************************************************)
EXTENDS Integers, Sequences, FiniteSets, TLC

\* ------------------------------------------------------------------ bounds

\* The most RecordRestart calls made on one tracker.
MaxRestarts == 3
\* The capacity of the backing array of IgnoredExitCodes.
MaxLen == 2
\* The largest AttemptResetPeriod.
MaxPeriod == 1
\* How far startedAt lies from the clock's reading, either way.
MaxTime == 1
\* The number of goroutines calling RecordRestart concurrently.
NumThreads == 2

\* ------------------------------------------------------------- value sets

\* Exit codes a policy may list as ignored.
IgnorableCodes == {0, 137}
\* Exit codes a container may report: those, and one no policy lists.
ExitCodes == IgnorableCodes \cup {1}
\* exitCode *int: nil or a pointer to a code.
NilExit == <<>>
ExitPtrs == {NilExit} \cup {<<c>> : c \in ExitCodes}
Times == -MaxTime..MaxTime
Periods == 0..MaxPeriod
Threads == 1..NumThreads

\* apicontainerstatus.ContainerStatus: only ContainerStopped is told apart.
ContainerStopped == "STOPPED"
ContainerRunning == "RUNNING"
ContainerStatuses == {ContainerRunning, ContainerStopped}

\* ---------------------------------------------------------------- slices

\* The nil slice: the zero value of IgnoredExitCodes, an unset field.
NilSlice == [ptr |-> 0, len |-> 0]
\* A slice of n elements over the backing array.
SliceOf(n) == [ptr |-> 1, len |-> n]
Slices == {NilSlice} \cup {SliceOf(n) : n \in 0..MaxLen}
\* A variant: an unset slice taken for one holding a single zero value.
SliceLenUnsetAsOne(s) == IF s.ptr = 0 THEN 1 ELSE s.len

\* len(s): 0 for the nil slice.
SliceLen(s) == s.len

\* The i-th element (from 1) that `range s` yields; every made slice starts
\* at the first element of the one backing array h.
SliceAt(s, h, i) == h[i]

RestartPolicies == [Enabled : BOOLEAN, IgnoredExitCodes : Slices,
                    AttemptResetPeriod : Periods]

\* --------------------------------------------------------- fmt.Sprintf %d

Digit(d) ==
    CASE d = 0 -> "0" [] d = 1 -> "1" [] d = 2 -> "2" [] d = 3 -> "3"
      [] d = 4 -> "4" [] d = 5 -> "5" [] d = 6 -> "6" [] d = 7 -> "7"
      [] d = 8 -> "8" [] d = 9 -> "9"

RECURSIVE FormatNat(_)
FormatNat(n) ==
    IF n < 10 THEN Digit(n) ELSE FormatNat(n \div 10) \o Digit(n % 10)

\* The verb %d: decimal, a minus sign for a negative number.
FormatInt(n) == IF n < 0 THEN "-" \o FormatNat(-n) ELSE FormatNat(n)

\* ----------------------------------------------------------- ShouldRestart

\* time.Since(startedAt): the clock's reading, the origin, minus startedAt.
Since(startedAt) == 0 - startedAt

\* A variant: the loop gives up after its first element.
RangeFindsFirstOnly(s, h, i, c) ==
    i <= SliceLen(s) /\ i = 1 /\ SliceAt(s, h, i) = c

\* for _, ignoredCode := range IgnoredExitCodes { if ignoredCode == c ... }
\* from element i on: TRUE when the loop returns from inside its body.
RECURSIVE RangeFinds(_, _, _, _)
RangeFinds(s, h, i, c) ==
    IF i > SliceLen(s) THEN FALSE
    ELSE IF SliceAt(s, h, i) = c THEN TRUE
    ELSE RangeFinds(s, h, i + 1, c)

IgnoredReason(c) == "exit code " \o FormatInt(c) \o " should be ignored"

\* A variant: the boundary blocks too.
ResetPeriodNotElapsedInclusive(since, period) == since <= period

\* time.Since(startedAt) < rt.restartPolicy.AttemptResetPeriod
ResetPeriodNotElapsed(since, period) == since < period

\* A variant: the desired status is looked at before the policy's switch.
ShouldRestartStoppedFirst(rp, h, exitCode, since, desiredStatus) ==
    IF desiredStatus = ContainerStopped
    THEN <<FALSE, "container's desired status is stopped">>
    ELSE IF ~rp.Enabled
    THEN <<FALSE, "restart policy is not enabled">>
    ELSE IF exitCode = NilExit
    THEN <<FALSE, "exit code is nil">>
    ELSE IF RangeFinds(rp.IgnoredExitCodes, h, 1, exitCode[1])
    THEN <<FALSE, IgnoredReason(exitCode[1])>>
    ELSE IF ResetPeriodNotElapsed(since, rp.AttemptResetPeriod)
    THEN <<FALSE, "attempt reset period has not elapsed">>
    ELSE <<TRUE, "">>

\* A variant: the exit code is looked at before the desired status.
ShouldRestartExitCodeFirst(rp, h, exitCode, since, desiredStatus) ==
    IF ~rp.Enabled
    THEN <<FALSE, "restart policy is not enabled">>
    ELSE IF exitCode = NilExit
    THEN <<FALSE, "exit code is nil">>
    ELSE IF RangeFinds(rp.IgnoredExitCodes, h, 1, exitCode[1])
    THEN <<FALSE, IgnoredReason(exitCode[1])>>
    ELSE IF desiredStatus = ContainerStopped
    THEN <<FALSE, "container's desired status is stopped">>
    ELSE IF ResetPeriodNotElapsed(since, rp.AttemptResetPeriod)
    THEN <<FALSE, "attempt reset period has not elapsed">>
    ELSE <<TRUE, "">>

\* A variant: the reset period is looked at before the exit code.
ShouldRestartPeriodFirst(rp, h, exitCode, since, desiredStatus) ==
    IF ~rp.Enabled
    THEN <<FALSE, "restart policy is not enabled">>
    ELSE IF desiredStatus = ContainerStopped
    THEN <<FALSE, "container's desired status is stopped">>
    ELSE IF ResetPeriodNotElapsed(since, rp.AttemptResetPeriod)
    THEN <<FALSE, "attempt reset period has not elapsed">>
    ELSE IF exitCode = NilExit
    THEN <<FALSE, "exit code is nil">>
    ELSE IF RangeFinds(rp.IgnoredExitCodes, h, 1, exitCode[1])
    THEN <<FALSE, IgnoredReason(exitCode[1])>>
    ELSE <<TRUE, "">>

\* ShouldRestart on a tracker whose policy is rp, with backing array h; since is
\* what time.Since(startedAt) returns. The result is <<bool, reason>>.
ShouldRestart(rp, h, exitCode, since, desiredStatus) ==
    IF ~rp.Enabled
    THEN <<FALSE, "restart policy is not enabled">>
    ELSE IF desiredStatus = ContainerStopped
    THEN <<FALSE, "container's desired status is stopped">>
    ELSE IF exitCode = NilExit
    THEN <<FALSE, "exit code is nil">>
    ELSE IF RangeFinds(rp.IgnoredExitCodes, h, 1, exitCode[1])
    THEN <<FALSE, IgnoredReason(exitCode[1])>>
    ELSE IF ResetPeriodNotElapsed(since, rp.AttemptResetPeriod)
    THEN <<FALSE, "attempt reset period has not elapsed">>
    ELSE <<TRUE, "">>

\* A variant: the count is set, not added to.
IncrSetsOne(n) == 1

\* rt.RestartCount += 1
Incr(n) == n + 1

\* ------------------------------------------------------------------ state

VARIABLES
    RestartCount,    \* rt.RestartCount
    restartPolicy,   \* rt.restartPolicy
    callerCodes,     \* IgnoredExitCodes of the caller's own RestartPolicy
    heap,            \* the backing array of the IgnoredExitCodes slices
    ret,             \* what the last call returned, and its arguments
    recorded,        \* the number of RecordRestart calls returned so far
    pc,              \* per goroutine: where it is in RecordRestart
    reg,             \* per goroutine: the RestartCount it loaded
    serialized       \* whether the caller lets one call at a time at the tracker

vars == <<RestartCount, restartPolicy, callerCodes, heap, ret, recorded,
          pc, reg, serialized>>

trackerVars == <<RestartCount, restartPolicy>>
threadVars == <<pc, reg, serialized>>

\* No call has returned a value since the last change of state.
NoRet == [op |-> "none", exitCode |-> NilExit, since |-> 0,
          desiredStatus |-> ContainerRunning, restart |-> FALSE,
          reason |-> "", count |-> 0]

\* NewRestartTracker(restartPolicy): the policy is copied as a struct, the
\* count is the zero value.
NewRestartTracker(p) == [RestartCount |-> 0, restartPolicy |-> p]

\* The tracker just constructed from a policy the caller built: an unset or a
\* made slice of any length, over any codes, the rest of the array zero.
InitTracker ==
    /\ \E p \in RestartPolicies :
           /\ callerCodes = p.IgnoredExitCodes
           /\ RestartCount = NewRestartTracker(p).RestartCount
           /\ restartPolicy = NewRestartTracker(p).restartPolicy
    /\ heap \in [1..MaxLen -> IgnorableCodes]
    /\ \A i \in 1..MaxLen : i > callerCodes.len => heap[i] = 0
    /\ ret = NoRet
    /\ recorded = 0

Init ==
    /\ InitTracker
    /\ pc = [t \in Threads |-> "idle"]
    /\ reg = [t \in Threads |-> 0]
    /\ serialized = TRUE

\* ------------------------------------------------- the tracker's methods

\* A variant: an approved restart is counted by the decision itself.
ShouldRestartCallRecording ==
    \E exitCode \in ExitPtrs, startedAt \in Times,
       desiredStatus \in ContainerStatuses :
        LET r == ShouldRestart(restartPolicy, heap, exitCode,
                               Since(startedAt), desiredStatus)
        IN  /\ ret' = [NoRet EXCEPT !.op = "ShouldRestart",
                                    !.exitCode = exitCode,
                                    !.since = Since(startedAt),
                                    !.desiredStatus = desiredStatus,
                                    !.restart = r[1],
                                    !.reason = r[2]]
            /\ RestartCount' = IF r[1] /\ RestartCount < MaxRestarts
                               THEN RestartCount + 1 ELSE RestartCount
            /\ UNCHANGED <<restartPolicy, callerCodes, heap, recorded, threadVars>>

\* rt.ShouldRestart(exitCode, startedAt, desiredStatus)
ShouldRestartCall ==
    \E exitCode \in ExitPtrs, startedAt \in Times,
       desiredStatus \in ContainerStatuses :
        LET r == ShouldRestart(restartPolicy, heap, exitCode,
                               Since(startedAt), desiredStatus)
        IN  /\ ret' = [NoRet EXCEPT !.op = "ShouldRestart",
                                    !.exitCode = exitCode,
                                    !.since = Since(startedAt),
                                    !.desiredStatus = desiredStatus,
                                    !.restart = r[1],
                                    !.reason = r[2]]
            /\ UNCHANGED <<trackerVars, callerCodes, heap, recorded, threadVars>>

\* rt.GetRestartCount()
GetRestartCount ==
    /\ ret' = [NoRet EXCEPT !.op = "GetRestartCount", !.count = RestartCount]
    /\ UNCHANGED <<trackerVars, callerCodes, heap, recorded, threadVars>>

\* rt.RecordRestart(), one call after another.
RecordRestart ==
    /\ recorded < MaxRestarts
    /\ RestartCount' = Incr(RestartCount)
    /\ recorded' = recorded + 1
    /\ ret' = NoRet
    /\ UNCHANGED <<restartPolicy, callerCodes, heap, threadVars>>

\* rt.restartPolicy = p: the tracker is given a policy with any switch and
\* period, its codes unset or the caller's slice as it is now.
SetPolicy ==
    /\ \E p \in RestartPolicies :
           /\ p.IgnoredExitCodes \in {NilSlice, callerCodes}
           /\ restartPolicy' = p
    /\ ret' = NoRet
    /\ UNCHANGED <<RestartCount, callerCodes, heap, recorded, threadVars>>

\* ------------------------- the caller changes its own policy's codes

\* p.IgnoredExitCodes[i-1] = c: a store into the backing array.
CallerOverwriteCode ==
    \E i \in 1..MaxLen, c \in IgnorableCodes :
        /\ i <= SliceLen(callerCodes)
        /\ c # heap[i]
        /\ heap' = [heap EXCEPT ![i] = c]
        /\ ret' = NoRet
        /\ UNCHANGED <<trackerVars, callerCodes, recorded, threadVars>>

\* p.IgnoredExitCodes = append(p.IgnoredExitCodes, c), within the capacity:
\* a nil slice gets the array, a made one stores past its length.
CallerAppendCode ==
    \E c \in IgnorableCodes :
        LET s == callerCodes
        IN  /\ SliceLen(s) < MaxLen
            /\ heap' = [heap EXCEPT ![SliceLen(s) + 1] = c]
            /\ callerCodes' = SliceOf(SliceLen(s) + 1)
            /\ ret' = NoRet
            /\ UNCHANGED <<trackerVars, recorded, threadVars>>

CallerMutates ==
    \/ CallerOverwriteCode
    \/ CallerAppendCode

Next ==
    \/ ShouldRestartCall
    \/ GetRestartCount
    \/ RecordRestart
    \/ SetPolicy
    \/ CallerOverwriteCode
    \/ CallerAppendCode

Spec == Init /\ [][Next]_vars

\* ------------------------------------ RecordRestart from several goroutines

\* The tracker has no lock of its own. A caller that serializes (serialized)
\* enters a method only while no other call is in progress.
NoCallInProgress == \A u \in Threads : pc[u] = "idle"

\* The calls begun so far: those returned and those in progress.
Begun == recorded + Cardinality({u \in Threads : pc[u] # "idle"})

\* Goroutine t calls rt.RecordRestart().
BeginRecordRestart(t) ==
    /\ pc[t] = "idle"
    /\ Begun < MaxRestarts
    /\ serialized => NoCallInProgress
    /\ pc' = [pc EXCEPT ![t] = "load"]
    /\ ret' = NoRet
    /\ UNCHANGED <<trackerVars, callerCodes, heap, recorded, reg, serialized>>

\* rt.RestartCount += 1, first half: the load of rt.RestartCount.
LoadRestartCount(t) ==
    /\ pc[t] = "load"
    /\ reg' = [reg EXCEPT ![t] = RestartCount]
    /\ pc' = [pc EXCEPT ![t] = "store"]
    /\ UNCHANGED <<trackerVars, callerCodes, heap, ret, recorded, serialized>>

\* rt.RestartCount += 1, second half: the store of the sum; the call returns.
StoreRestartCount(t) ==
    /\ pc[t] = "store"
    /\ RestartCount' = Incr(reg[t])
    /\ recorded' = recorded + 1
    /\ pc' = [pc EXCEPT ![t] = "idle"]
    /\ reg' = [reg EXCEPT ![t] = 0]
    /\ UNCHANGED <<restartPolicy, callerCodes, heap, ret, serialized>>

\* Any tracker, used by a caller that serializes or by one that does not.
InitConc ==
    /\ InitTracker
    /\ pc = [t \in Threads |-> "idle"]
    /\ reg = [t \in Threads |-> 0]
    /\ serialized \in BOOLEAN

NextConc ==
    \E t \in Threads :
        \/ BeginRecordRestart(t)
        \/ LoadRestartCount(t)
        \/ StoreRestartCount(t)

SpecConc == InitConc /\ [][NextConc]_vars

\* ------------------------------------------------------------ the claims

\* What the last call was given and what it returned.
Returned(op) == ret.op = op
Result == <<ret.restart, ret.reason>>

\* The codes the tracker's policy lists, read off the memory it points at.
IgnoredNow == {heap[i] : i \in 1..restartPolicy.IgnoredExitCodes.len}

\* The reason for an ignored code, written out for each code.
IgnoredReasonOf(c) ==
    CASE c = 0 -> "exit code 0 should be ignored"
      [] c = 1 -> "exit code 1 should be ignored"
      [] c = 137 -> "exit code 137 should be ignored"

\* C1: with the policy disabled ShouldRestart returns (false, "restart policy
\* is not enabled") whatever the exit code, start time and desired status.
C1_DisabledWins ==
    (Returned("ShouldRestart") /\ ~restartPolicy.Enabled)
        => Result = <<FALSE, "restart policy is not enabled">>

\* C1's case: disabled, though the desired status is stopped and the exit code
\* is absent.
C1_Witness ==
    /\ Returned("ShouldRestart")
    /\ ~restartPolicy.Enabled
    /\ ret.desiredStatus = ContainerStopped
    /\ ret.exitCode = NilExit
    /\ Result = <<FALSE, "restart policy is not enabled">>

\* C2: with the policy enabled and the desired status stopped ShouldRestart
\* returns (false, "container's desired status is stopped"), whatever the exit
\* code and the elapsed time.
C2_StoppedWins ==
    (Returned("ShouldRestart") /\ restartPolicy.Enabled
        /\ ret.desiredStatus = ContainerStopped)
        => Result = <<FALSE, "container's desired status is stopped">>

\* C2's case: stopped, with an ignored exit code and the period not elapsed.
C2_Witness ==
    /\ Returned("ShouldRestart")
    /\ restartPolicy.Enabled
    /\ ret.desiredStatus = ContainerStopped
    /\ ret.exitCode # NilExit
    /\ ret.exitCode[1] \in IgnoredNow
    /\ ret.since < restartPolicy.AttemptResetPeriod
    /\ Result = <<FALSE, "container's desired status is stopped">>

\* C3: enabled, not stopped, an exit code that is present and not ignored: the
\* result is (false, "attempt reset period has not elapsed") when the elapsed
\* time is below AttemptResetPeriod and (true, "") when it is equal or above.
C3_ResetPeriod ==
    (Returned("ShouldRestart") /\ restartPolicy.Enabled
        /\ ret.desiredStatus # ContainerStopped
        /\ ret.exitCode # NilExit /\ ret.exitCode[1] \notin IgnoredNow)
        => Result = IF ret.since < restartPolicy.AttemptResetPeriod
                    THEN <<FALSE, "attempt reset period has not elapsed">>
                    ELSE <<TRUE, "">>

\* C3's case: the boundary, the elapsed time equal to a positive period.
C3_Witness ==
    /\ Returned("ShouldRestart")
    /\ restartPolicy.Enabled
    /\ ret.desiredStatus # ContainerStopped
    /\ ret.exitCode # NilExit
    /\ ret.exitCode[1] \notin IgnoredNow
    /\ restartPolicy.AttemptResetPeriod > 0
    /\ ret.since = restartPolicy.AttemptResetPeriod
    /\ Result = <<TRUE, "">>

\* C4: enabled, not stopped, an exit code c listed anywhere in IgnoredExitCodes:
\* the result is (false, "exit code c should be ignored"), elapsed or not.
C4_IgnoredCode ==
    (Returned("ShouldRestart") /\ restartPolicy.Enabled
        /\ ret.desiredStatus # ContainerStopped
        /\ ret.exitCode # NilExit /\ ret.exitCode[1] \in IgnoredNow)
        => Result = <<FALSE, IgnoredReasonOf(ret.exitCode[1])>>

\* C4's case: the code is the second one listed, not the first, and the reset
\* period has elapsed.
C4_Witness ==
    /\ Returned("ShouldRestart")
    /\ restartPolicy.Enabled
    /\ ret.desiredStatus # ContainerStopped
    /\ restartPolicy.IgnoredExitCodes.len >= 2
    /\ ret.exitCode = <<137>>
    /\ heap[1] # 137 /\ heap[2] = 137
    /\ ret.since >= restartPolicy.AttemptResetPeriod
    /\ Result = <<FALSE, "exit code 137 should be ignored">>

\* C5: enabled, not stopped, no exit code: the result is (false, "exit code is
\* nil"), whatever IgnoredExitCodes holds and whatever time has elapsed.
C5_NilExitCode ==
    (Returned("ShouldRestart") /\ restartPolicy.Enabled
        /\ ret.desiredStatus # ContainerStopped /\ ret.exitCode = NilExit)
        => Result = <<FALSE, "exit code is nil">>

\* C5's case: no exit code, 0 is ignored, the reset period has not elapsed.
C5_Witness ==
    /\ Returned("ShouldRestart")
    /\ restartPolicy.Enabled
    /\ ret.desiredStatus # ContainerStopped
    /\ ret.exitCode = NilExit
    /\ 0 \in IgnoredNow
    /\ ret.since < restartPolicy.AttemptResetPeriod
    /\ Result = <<FALSE, "exit code is nil">>

\* C6: after n RecordRestart calls, one after another, on a new tracker the
\* restart count is n and GetRestartCount returns n, whatever the policy.
C6_CountIsCalls ==
    /\ RestartCount = recorded
    /\ Returned("GetRestartCount") => ret.count = recorded

\* C6's case: several restarts recorded under a disabled policy, then read.
C6_Witness ==
    /\ Returned("GetRestartCount")
    /\ recorded >= 2
    /\ ret.count = recorded
    /\ ~restartPolicy.Enabled

\* C7: the restart count never decreases and changes only in a RecordRestart
\* step; ShouldRestart and GetRestartCount leave the count and the stored
\* policy as they are, and a reassigned policy leaves the count as it is.
C7_OnlyRecordChangesCount ==
    [][/\ RestartCount' >= RestartCount
       /\ RestartCount' = RestartCount \/ RecordRestart
       /\ UNCHANGED <<RestartCount, restartPolicy, heap>>
              \/ ~(ShouldRestartCall \/ GetRestartCount)
       /\ SetPolicy => RestartCount' = RestartCount]_vars

\* C7's case: ShouldRestart has approved a restart on a tracker that has
\* recorded restarts before, and the count is still theirs.
C7_Witness ==
    /\ Returned("ShouldRestart")
    /\ ret.restart
    /\ RestartCount >= 2

\* C8: a change the caller makes to its own policy object after construction
\* does not change what ShouldRestart returns, for any arguments.
C8_CallerMutationUnseen ==
    [][CallerMutates =>
          \A exitCode \in ExitPtrs, since \in Times,
             desiredStatus \in ContainerStatuses :
              ShouldRestart(restartPolicy', heap', exitCode, since, desiredStatus)
                  = ShouldRestart(restartPolicy, heap, exitCode, since,
                                  desiredStatus)]_vars

\* C9: calls the caller serializes are all counted; calls it does not may
\* overwrite each other's store, and the count is never above the calls made.
C9_SerializedCountsAll ==
    /\ serialized => RestartCount = recorded
    /\ RestartCount <= recorded

\* C9's case: the lost update. Every call has returned and the count is short.
C9_LostUpdate ==
    /\ ~serialized
    /\ NoCallInProgress
    /\ recorded >= 2
    /\ RestartCount < recorded

====
